---- MODULE Spec2Model ----
(***************************************************************************)
(* ElasticBuffer (elasticbatch/buffer.py): a client-side buffer that       *)
(* accumulates documents and bulk-inserts them into Elasticsearch.         *)
(*                                                                         *)
(* The state is the instance's fields; there is one action per public      *)
(* operation (__enter__, add, flush, __exit__), each modelling the whole   *)
(* call, the implicit flush and the dump included.  The bulk transport is  *)
(* external: each call to it draws its outcome from BulkResults.           *)
(*                                                                         *)
(* Spec is any sequence of calls on one instance; FreshSpec is a fresh     *)
(* instance that receives add calls only, with the documents appended and  *)
(* the transport calls counted.                                            *)
(***************************************************************************)
EXTENDS Integers, Sequences, FiniteSets, TLC

(* ------------------------------ bounds -------------------------------- *)
MaxSize == 2        \* capacities 1..MaxSize are constructed
MaxBundle == 2      \* longest list of documents passed to one add
MaxBuf == 3         \* add is not called with more documents than bring the buffer to MaxBuf
MaxAdded == 4       \* documents added in a run of add calls on a fresh buffer
MaxRows == 2        \* rows of the longest series or frame handed to _ensure_list

(* ------------------------------ values -------------------------------- *)
\* Python's None / an Optional value: <<>> is None, <<v>> is the value v.
None == <<>>
Some(v) == <<v>>
\* Timestamps and clock readings (seconds since the epoch): an earlier and a later one.
Times == { 1, 2 }
Sizes == 1..MaxSize

\* The documents callers hand to add: dicts from field names to values.
Docs == { [a |-> 1], [a |-> 2, _id |-> 7] }

Range(s) == { s[i] : i \in 1..Len(s) }

SeqsUpTo(S, n) == UNION { [1..k -> S] : k \in 0..n }

VARIABLES
    size,                    \* self.size
    dump_dir,                \* self.dump_dir (None or a directory)
    metadata_funcs,          \* self.metadata_funcs: set of hooked field names
    no_pandas,               \* elasticbatch.types.no_pandas: pandas failed to import
    verbose_errs,            \* self.verbose_errs
    given_bulk_kwargs,       \* the bulk_kwargs argument of __init__ (None or a dict)
    bulk_kwargs,             \* self.bulk_kwargs
    buffer,                  \* self._buffer
    oldest_doc_timestamp,    \* self._oldest_doc_timestamp
    n_added,                 \* FreshSpec: documents appended since construction
    n_bulk,                  \* FreshSpec: calls of bulk since construction
    last,                    \* the most recent call: what it was given, what it
                             \* raised, the transport calls and dump files it made
    arg,                     \* NormSpec: the bundle _ensure_list was called with
    ret,                     \* NormSpec: what that call returned or raised
    pc,                      \* ConcSpec: where each caller stands in add or flush
    sent,                    \* ConcSpec: the documents each caller's pending bulk call was given
    submitted,               \* ConcSpec: per buffered document, whether a bulk call was given it
    serialized,              \* ConcSpec: the callers take a mutex around add and flush
    lost,                    \* ConcSpec: a document was cleared that no bulk call was given
    false_shortfall,         \* ConcSpec: a fully successful bulk call raised the count error
    log,                     \* the documents appended since flush last returned normally
    raised,                  \* ErrSpec: an ElasticBufferFlushError (msg, err, verbose)
    rendered,                \* ErrSpec: str() of it
    scope,                   \* ScopeSpec: where the with-block stands
    propagating,             \* ScopeSpec: the exception leaving the with-block, if any
    scope_flushes,           \* ScopeSpec: calls of flush since the block was entered
    scope_overflows,         \* ScopeSpec: adds since then that brought the buffer above its size
    indexed,                 \* RetrySpec: how often Elasticsearch indexed each buffered document
    retrying                 \* RetrySpec: the buffer when the caller stopped adding, to flush until it succeeds

vars == << size, dump_dir, metadata_funcs, no_pandas, verbose_errs, given_bulk_kwargs,
           bulk_kwargs, buffer, oldest_doc_timestamp,
           n_added, n_bulk, last, arg, ret,
           pc, sent, submitted, serialized, lost, false_shortfall,
           log, raised, rendered, scope, propagating, scope_flushes, scope_overflows,
           indexed, retrying >>

config == << size, dump_dir, metadata_funcs, no_pandas, verbose_errs,
             given_bulk_kwargs, bulk_kwargs >>
counters == << n_added, n_bulk >>
normalizer == << arg, ret >>
callers == << pc, sent, submitted, serialized, lost, false_shortfall >>
rendering == << raised, rendered >>
scoped == << scope, propagating, scope_flushes, scope_overflows >>
retry == << indexed, retrying >>

(* --------------------------- the transport ---------------------------- *)
\* elasticsearch.helpers.bulk on n documents: it raises an
\* ElasticsearchException, or returns (n_success, bulk_errs), an integer and a
\* list.  The counts drawn are n and its two neighbours: a shortfall of one,
\* every document, and one more than was submitted.
BulkResults(n) ==
    [ raises : {TRUE}, n_success : {0}, bulk_errs : {<< >>} ]
    \cup
    [ raises : {FALSE}, n_success : { k \in 0..(n + 1) : k >= n - 1 },
      bulk_errs : { << >>, << "err1" >> } ]

\* The answers the transport can give to the call a method makes: bulk is
\* called only from flush, and only on a non-empty buffer.
Answers(called, n) == IF called /\ n > 0 THEN BulkResults(n) ELSE { CHOOSE r \in BulkResults(0) : TRUE }

(* ------------------------ ElasticBufferFlushError ---------------------- *)
NoExc == [ type |-> "none", msg |-> "", n_fail |-> 0, n_total |-> 0, err |-> "None" ]

FlushError(msg, n_fail, n_total, err) ==
    [ type |-> "ElasticBufferFlushError", msg |-> msg,
      n_fail |-> n_fail, n_total |-> n_total, err |-> err ]

ValueError(msg) ==
    [ type |-> "ValueError", msg |-> msg, n_fail |-> 0, n_total |-> 0, err |-> "None" ]

\* What open() raises when the dump file cannot be created
OSError == [ type |-> "OSError", msg |-> "", n_fail |-> 0, n_total |-> 0, err |-> "None" ]

(* ---------------- ElasticBufferFlushError, as printed ------------------ *)
\* The err argument of ElasticBufferFlushError: None, a str, a list of str, or
\* an exception, which has a class name, a text (its str()) and, unless its
\* class is a built-in one, a __module__.
NoCause == [ kind |-> "None", text |-> "", items |-> << >>, module |-> None, name |-> "" ]
StrCause(s) == [ kind |-> "str", text |-> s, items |-> << >>, module |-> None, name |-> "" ]
ListCause(l) == [ kind |-> "list", text |-> "", items |-> l, module |-> None, name |-> "" ]
ExceptionCause(module, name, text) ==
    [ kind |-> "exception", text |-> text, items |-> << >>, module |-> module, name |-> name ]

\* repr() of a str without quotes in it, and str() of a list of them
repr(s) == "'" \o s \o "'"
RECURSIVE join(_)
join(l) ==
    IF Len(l) = 0 THEN ""
    ELSE IF Len(l) = 1 THEN repr(l[1])
    ELSE repr(l[1]) \o ", " \o join(Tail(l))

\* str(err)
str(err) ==
    CASE err.kind = "None" -> "None"
      [] err.kind = "str" -> err.text
      [] err.kind = "list" -> "[" \o join(err.items) \o "]"
      [] err.kind = "exception" -> err.text

\* ElasticBufferFlushError.__init__
ElasticBufferFlushError(msg, err, verbose) ==
    [ msg |-> IF msg # None THEN msg[1] ELSE "", err |-> err, verbose |-> verbose ]

\* Mutant: the root cause is printed whatever verbose is.
__str__always_verbose(e) ==
    IF e.err.kind = "None" THEN e.msg
    ELSE IF e.err.kind \in { "str", "list" } THEN e.msg \o ": " \o str(e.err)
    ELSE e.msg \o ": "
         \o (IF e.err.module # None THEN e.err.module[1] \o "." \o e.err.name
             ELSE e.err.name)
         \o ": " \o str(e.err)

\* Mutant: the class of an exception is printed without its module.
__str__bare_class_name(e) ==
    IF ~e.verbose THEN e.msg
    ELSE IF e.err.kind = "None" THEN e.msg
    ELSE IF e.err.kind \in { "str", "list" } THEN e.msg \o ": " \o str(e.err)
    ELSE e.msg \o ": " \o e.err.name \o ": " \o str(e.err)

\* ElasticBufferFlushError.__str__; reading __module__ raises AttributeError
\* on an instance of a built-in class.
__str__(e) ==
    IF ~e.verbose THEN e.msg
    ELSE IF e.err.kind = "None" THEN e.msg
    ELSE IF e.err.kind \in { "str", "list" } THEN e.msg \o ": " \o str(e.err)
    ELSE LET err_name == IF e.err.module # None
                         THEN e.err.module[1] \o "." \o e.err.name
                         ELSE e.err.name
         IN e.msg \o ": " \o err_name \o ": " \o str(e.err)

\* The ElasticBufferFlushError that flush raises as exc, in full: err is the
\* ElasticsearchException caught (fault), the list bulk returned (bulk_errs),
\* or absent, and verbose is self.verbose_errs.
flush_raise(exc, fault, bulk_errs, verbose) ==
    IF exc.err = "exception"
    THEN ElasticBufferFlushError(Some(exc.msg), fault, verbose)
    ELSE IF exc.err = "bulk_errs"
    THEN ElasticBufferFlushError(Some(exc.msg), ListCause(bulk_errs), verbose)
    ELSE ElasticBufferFlushError(
             Some("Failed to insert " \o ToString(exc.n_fail) \o " of "
                  \o ToString(exc.n_total) \o " documents"),
             NoCause, verbose)

(* ------------------------------- flush -------------------------------- *)
\* What one call of a method did: the fields it leaves, the exception it
\* raised, how many times flush was invoked, and the transport calls made.
Outcome(buf, ts, exc, n_flush, bulk) ==
    [ buffer |-> buf, ts |-> ts, exc |-> exc, flush_calls |-> n_flush, bulk |-> bulk ]

\* Mutant: the buffer is emptied and the timestamp of its oldest document kept.
_clear_buffer_keeps_timestamp(buf, ts) == [ buffer |-> << >>, ts |-> ts ]

\* ElasticBuffer._clear_buffer
_clear_buffer(buf, ts) == [ buffer |-> << >>, ts |-> None ]

\* ElasticBuffer.flush, parameterised by what a returned count that differs
\* from the length of the buffer does (fails), by how often a raising
\* transport is called (times), and by whether a success clears (clears).
FlushWith(buf, ts, res, fails, on_mismatch, times, clears) ==
    IF Len(buf) = 0
    THEN Outcome(buf, ts, NoExc, 1, << >>)
    ELSE LET call == << [ docs |-> buf, res |-> res ] >> IN
         IF res.raises
         THEN Outcome(buf, ts,
                  FlushError("Error while bulk inserting buffer contents", 0, 0, "exception"),
                  1, IF times = 2 THEN call \o call ELSE call)
         ELSE IF Len(res.bulk_errs) # 0
         THEN Outcome(buf, ts,
                  FlushError("Multiple bulk insertion errors", 0, 0, "bulk_errs"),
                  1, call)
         ELSE IF fails
         THEN Outcome(on_mismatch, IF Len(on_mismatch) = 0 THEN None ELSE ts,
                  FlushError("Failed to insert", Len(buf) - res.n_success, Len(buf), "None"),
                  1, call)
         ELSE IF clears
         THEN Outcome(<< >>, None, NoExc, 1, call)
         ELSE Outcome(buf, ts, NoExc, 1, call)

\* Mutant: a count shortfall drops the documents the transport accepted.
flush_partial_clear(buf, ts, res) ==
    FlushWith(buf, ts, res, res.n_success # Len(buf),
              IF res.n_success < Len(buf)
              THEN SubSeq(buf, res.n_success + 1, Len(buf)) ELSE buf, 1, TRUE)

\* Mutant: a successful bulk insert does not clear the buffer.
flush_no_clear(buf, ts, res) ==
    FlushWith(buf, ts, res, res.n_success # Len(buf), buf, 1, FALSE)

\* Mutant: only a count below the length of the buffer is a failure.
flush_shortfall_only(buf, ts, res) ==
    FlushWith(buf, ts, res, res.n_success < Len(buf), buf, 1, TRUE)

\* Mutant: a transport fault is retried once before it is reported.
flush_retries(buf, ts, res) ==
    FlushWith(buf, ts, res, res.n_success # Len(buf), buf, 2, TRUE)

\* Mutant: a failed flush unsets the timestamp of the oldest document.
flush_unsets_timestamp(buf, ts, res) ==
    LET o == FlushWith(buf, ts, res, res.n_success # Len(buf), buf, 1, TRUE)
    IN IF o.exc.type = "none" THEN o ELSE Outcome(o.buffer, None, o.exc, 1, o.bulk)

\* Mutant: a count that differs from the length of the buffer raises, and
\* the buffer is cleared all the same.
flush_clears_on_shortfall(buf, ts, res) ==
    FlushWith(buf, ts, res, res.n_success # Len(buf), << >>, 1, TRUE)

\* Mutant: an exception of the transport raises, and the buffer is dropped.
flush_drops_on_fault(buf, ts, res) ==
    IF Len(buf) > 0 /\ res.raises
    THEN Outcome(<< >>, None,
             FlushError("Error while bulk inserting buffer contents", 0, 0, "exception"),
             1, << [ docs |-> buf, res |-> res ] >>)
    ELSE FlushWith(buf, ts, res, res.n_success # Len(buf), buf, 1, TRUE)

\* Mutant: the count is compared with the length of the buffer before the
\* list of errors is looked at.
flush_checks_count_first(buf, ts, res) ==
    IF Len(buf) > 0 /\ ~res.raises /\ res.n_success # Len(buf)
    THEN Outcome(buf, ts,
             FlushError("Failed to insert", Len(buf) - res.n_success, Len(buf), "None"),
             1, << [ docs |-> buf, res |-> res ] >>)
    ELSE FlushWith(buf, ts, res, res.n_success # Len(buf), buf, 1, TRUE)

\* ElasticBuffer.flush with the transport answering res.
flush(buf, ts, res) ==
    IF Len(buf) = 0
    THEN Outcome(buf, ts, NoExc, 1, << >>)
    ELSE LET call == << [ docs |-> buf, res |-> res ] >> IN
         IF res.raises
         THEN Outcome(buf, ts,
                  FlushError("Error while bulk inserting buffer contents", 0, 0, "exception"),
                  1, call)
         ELSE IF Len(res.bulk_errs) # 0
         THEN Outcome(buf, ts,
                  FlushError("Multiple bulk insertion errors", 0, 0, "bulk_errs"),
                  1, call)
         ELSE IF res.n_success # Len(buf)
         THEN Outcome(buf, ts,
                  FlushError("Failed to insert", Len(buf) - res.n_success, Len(buf), "None"),
                  1, call)
         ELSE LET c == _clear_buffer(buf, ts) IN
              Outcome(c.buffer, c.ts, NoExc, 1, call)

\* Mutant: the returned count is compared with one more than the buffer holds.
flush_resume_off_by_one(snt, buf, ts, res) ==
    LET call == << [ docs |-> snt, res |-> res ] >> IN
    IF res.raises
    THEN Outcome(buf, ts,
             FlushError("Error while bulk inserting buffer contents", 0, 0, "exception"),
             1, call)
    ELSE IF Len(res.bulk_errs) # 0
    THEN Outcome(buf, ts, FlushError("Multiple bulk insertion errors", 0, 0, "bulk_errs"),
             1, call)
    ELSE IF res.n_success # Len(buf) + 1
    THEN Outcome(buf, ts,
             FlushError("Failed to insert", Len(buf) - res.n_success, Len(buf), "None"),
             1, call)
    ELSE Outcome(buf, ts, NoExc, 1, call)

\* ElasticBuffer.flush from the return of bulk up to the call of _clear_buffer:
\* snt is what bulk was given, buf and ts are the fields as they are when
\* bulk returns (len(self) is read then).
flush_resume(snt, buf, ts, res) ==
    LET call == << [ docs |-> snt, res |-> res ] >> IN
    IF res.raises
    THEN Outcome(buf, ts,
             FlushError("Error while bulk inserting buffer contents", 0, 0, "exception"),
             1, call)
    ELSE IF Len(res.bulk_errs) # 0
    THEN Outcome(buf, ts, FlushError("Multiple bulk insertion errors", 0, 0, "bulk_errs"),
             1, call)
    ELSE IF res.n_success # Len(buf)
    THEN Outcome(buf, ts,
             FlushError("Failed to insert", Len(buf) - res.n_success, Len(buf), "None"),
             1, call)
    ELSE Outcome(buf, ts, NoExc, 1, call)

(* ----------------------------- normalizer ----------------------------- *)
\* A DocumentBundle is tagged with its Python type:
\*   [kind |-> "dict", value |-> d]       [kind |-> "list", value |-> <<d, ...>>]
\*   [kind |-> "series", name, index_name, index, values]
\*   [kind |-> "frame", columns, index_name, index, rows]
\*   [kind |-> "int"]   (any other type)
DefaultColumn == "0"     \* the column key pandas gives an unnamed Series (integer 0)

Position(s, x) == CHOOSE i \in 1..Len(s) : s[i] = x

\* pandas.Series.to_frame: one column, keyed by the name or by the default key
to_frame(sr) ==
    [ kind |-> "frame",
      columns |-> << IF sr.name = None THEN DefaultColumn ELSE sr.name[1] >>,
      index_name |-> sr.index_name,
      index |-> sr.index,
      rows |-> [ i \in 1..Len(sr.values) |-> << sr.values[i] >> ] ]

\* pandas.DataFrame.reset_index: the index becomes the first column and the
\* new index is the unnamed 0..n-1
reset_index(df) ==
    [ kind |-> "frame",
      columns |-> << df.index_name[1] >> \o df.columns,
      index_name |-> None,
      index |-> [ i \in 1..Len(df.rows) |-> i - 1 ],
      rows |-> [ i \in 1..Len(df.rows) |-> << df.index[i] >> \o df.rows[i] ] ]

\* pandas.DataFrame.to_dict(orient='records')
to_dict_records(df) ==
    [ i \in 1..Len(df.rows) |->
        [ c \in Range(df.columns) |-> df.rows[i][Position(df.columns, c)] ] ]

Normalized(docs) == [ ok |-> TRUE, docs |-> docs, exc |-> NoExc ]
Rejected(msg) == [ ok |-> FALSE, docs |-> << >>, exc |-> ValueError(msg) ]

\* bool(name) of an index name: None, the integer 0 and the empty string are
\* false.  Keys that are Python integers are written as their digits; no key
\* that is a Python string is written in digits.
Truthy(name) == name # None /\ name[1] # DefaultColumn /\ name[1] # ""

\* Mutant: a list is returned newest first.
_ensure_list_reverses(b, nopd) ==
    IF b.kind = "list"
    THEN Normalized([ i \in 1..Len(b.value) |-> b.value[Len(b.value) + 1 - i] ])
    ELSE IF b.kind = "dict" THEN Normalized(<< b.value >>)
    ELSE IF nopd THEN Rejected("Must pass one of [List, Dict]")
    ELSE LET df == IF b.kind = "series" THEN to_frame(b) ELSE b IN
         IF df.kind = "frame"
         THEN Normalized(to_dict_records(
                  IF Truthy(df.index_name) THEN reset_index(df) ELSE df))
         ELSE Rejected("Must pass one of [List, Dict, pandas.Series, pandas.DataFrame]")

\* Mutant: the pandas conversions are tried whether or not pandas was imported.
_ensure_list_ignores_no_pandas(b, nopd) ==
    IF b.kind = "list" THEN Normalized(b.value)
    ELSE IF b.kind = "dict" THEN Normalized(<< b.value >>)
    ELSE LET df == IF b.kind = "series" THEN to_frame(b) ELSE b IN
         IF df.kind = "frame"
         THEN Normalized(to_dict_records(
                  IF Truthy(df.index_name) THEN reset_index(df) ELSE df))
         ELSE Rejected("Must pass one of [List, Dict, pandas.Series, pandas.DataFrame]")

\* ElasticBuffer._ensure_list
_ensure_list(b, nopd) ==
    IF b.kind = "list" THEN Normalized(b.value)
    ELSE IF b.kind = "dict" THEN Normalized(<< b.value >>)
    ELSE IF nopd THEN Rejected("Must pass one of [List, Dict]")
    ELSE LET df == IF b.kind = "series" THEN to_frame(b) ELSE b IN
         IF df.kind = "frame"
         THEN Normalized(to_dict_records(
                  IF Truthy(df.index_name) THEN reset_index(df) ELSE df))
         ELSE Rejected("Must pass one of [List, Dict, pandas.Series, pandas.DataFrame]")

(* ------------------------- metadata functions ------------------------- *)
\* The hook registered under a field name: a function of the document.
MetaFields == { "_id" }
MetaFunc(field, doc) == Cardinality(DOMAIN doc)

\* dict.update: the keys of upd are added to doc or overwritten in it
Update(doc, upd) ==
    [ k \in (DOMAIN doc) \cup (DOMAIN upd) |->
        IF k \in DOMAIN upd THEN upd[k] ELSE doc[k] ]

\* Mutant: a field the document already has is kept (dict.setdefault).
_apply_metadata_funcs_keeps_existing(docs, funcs) ==
    IF funcs = {} THEN docs
    ELSE [ i \in 1..Len(docs) |->
             Update([ f \in funcs |-> MetaFunc(f, docs[i]) ], docs[i]) ]

\* ElasticBuffer._apply_metadata_funcs
_apply_metadata_funcs(docs, funcs) ==
    IF funcs = {} THEN docs
    ELSE [ i \in 1..Len(docs) |->
             Update(docs[i], [ f \in funcs |-> MetaFunc(f, docs[i]) ]) ]

(* -------------------------------- add --------------------------------- *)
\* Mutant: the buffer is flushed when it reaches its size, not when it exceeds it.
_add_flush_at_capacity(buf, ts, sz, docs, timestamp, res) ==
    IF Len(docs) = 0
    THEN Outcome(buf, ts, NoExc, 0, << >>)
    ELSE LET ts1 == IF Len(buf) = 0 THEN Some(timestamp) ELSE ts
             buf1 == buf \o docs
         IN IF Len(buf1) >= sz
            THEN flush(buf1, ts1, res)
            ELSE Outcome(buf1, ts1, NoExc, 0, << >>)

\* Mutant: the buffer is flushed one document late.
_add_off_by_one(buf, ts, sz, docs, timestamp, res) ==
    IF Len(docs) = 0
    THEN Outcome(buf, ts, NoExc, 0, << >>)
    ELSE LET ts1 == IF Len(buf) = 0 THEN Some(timestamp) ELSE ts
             buf1 == buf \o docs
         IN IF Len(buf1) > sz + 1
            THEN flush(buf1, ts1, res)
            ELSE Outcome(buf1, ts1, NoExc, 0, << >>)

\* Mutant: the size is tested, and the buffer flushed, before the append.
_add_flush_before_append(buf, ts, sz, docs, timestamp, res) ==
    IF Len(docs) = 0
    THEN Outcome(buf, ts, NoExc, 0, << >>)
    ELSE IF Len(buf) > sz
         THEN LET o == flush(buf, ts, res) IN
              Outcome(o.buffer \o docs,
                      IF Len(o.buffer) = 0 THEN Some(timestamp) ELSE o.ts,
                      o.exc, 1, o.bulk)
         ELSE Outcome(buf \o docs, IF Len(buf) = 0 THEN Some(timestamp) ELSE ts,
                      NoExc, 0, << >>)

\* Mutant: every add records its timestamp, not only an add to an empty buffer.
_add_always_stamps(buf, ts, sz, docs, timestamp, res) ==
    IF Len(docs) = 0
    THEN Outcome(buf, ts, NoExc, 0, << >>)
    ELSE LET ts1 == Some(timestamp)
             buf1 == buf \o docs
         IN IF Len(buf1) > sz
            THEN flush(buf1, ts1, res)
            ELSE Outcome(buf1, ts1, NoExc, 0, << >>)

\* Mutant: documents beyond the size are dropped instead of flushing.
_add_drops_overflow(buf, ts, sz, docs, timestamp, res) ==
    IF Len(docs) = 0
    THEN Outcome(buf, ts, NoExc, 0, << >>)
    ELSE LET ts1 == IF Len(buf) = 0 THEN Some(timestamp) ELSE ts
             buf1 == buf \o docs
         IN IF Len(buf1) > sz
            THEN Outcome(SubSeq(buf1, Len(buf1) - sz + 1, Len(buf1)), ts1, NoExc, 0, << >>)
            ELSE Outcome(buf1, ts1, NoExc, 0, << >>)

\* Mutant: only the first size documents are flushed, the rest are kept.
_add_keeps_remainder(buf, ts, sz, docs, timestamp, res) ==
    IF Len(docs) = 0
    THEN Outcome(buf, ts, NoExc, 0, << >>)
    ELSE LET ts1 == IF Len(buf) = 0 THEN Some(timestamp) ELSE ts
             buf1 == buf \o docs
         IN IF Len(buf1) > sz
            THEN LET o == flush(SubSeq(buf1, 1, sz), ts1, res) IN
                 IF o.exc.type = "none"
                 THEN Outcome(SubSeq(buf1, sz + 1, Len(buf1)), ts1, NoExc, 1, o.bulk)
                 ELSE Outcome(buf1, ts1, o.exc, 1, o.bulk)
            ELSE Outcome(buf1, ts1, NoExc, 0, << >>)

\* Mutant: an add whose flush fails takes its documents back.
_add_rolls_back(buf, ts, sz, docs, timestamp, res) ==
    IF Len(docs) = 0
    THEN Outcome(buf, ts, NoExc, 0, << >>)
    ELSE LET ts1 == IF Len(buf) = 0 THEN Some(timestamp) ELSE ts
             buf1 == buf \o docs
         IN IF Len(buf1) > sz
            THEN LET o == flush(buf1, ts1, res) IN
                 IF o.exc.type = "none" THEN o ELSE Outcome(buf, ts, o.exc, 1, o.bulk)
            ELSE Outcome(buf1, ts1, NoExc, 0, << >>)

\* Mutant: a buffer already above its size refuses further documents.
_add_refuses_above_size(buf, ts, sz, docs, timestamp, res) ==
    IF Len(docs) = 0 \/ Len(buf) > sz
    THEN Outcome(buf, ts, NoExc, 0, << >>)
    ELSE LET ts1 == IF Len(buf) = 0 THEN Some(timestamp) ELSE ts
             buf1 == buf \o docs
         IN IF Len(buf1) > sz
            THEN flush(buf1, ts1, res)
            ELSE Outcome(buf1, ts1, NoExc, 0, << >>)

\* Mutant: an empty list of documents is not returned on early.
_add_no_empty_guard(buf, ts, sz, docs, timestamp, res) ==
    LET ts1 == IF Len(buf) = 0 THEN Some(timestamp) ELSE ts
        buf1 == buf \o docs
    IN IF Len(buf1) > sz
       THEN flush(buf1, ts1, res)
       ELSE Outcome(buf1, ts1, NoExc, 0, << >>)

\* Mutant: the documents are put in front of those buffered.
_add_prepends(buf, ts, sz, docs, timestamp, res) ==
    IF Len(docs) = 0
    THEN Outcome(buf, ts, NoExc, 0, << >>)
    ELSE LET ts1 == IF Len(buf) = 0 THEN Some(timestamp) ELSE ts
             buf1 == docs \o buf
         IN IF Len(buf1) > sz
            THEN flush(buf1, ts1, res)
            ELSE Outcome(buf1, ts1, NoExc, 0, << >>)

\* ElasticBuffer._add with the transport answering res if it is called.
_add(buf, ts, sz, docs, timestamp, res) ==
    IF Len(docs) = 0
    THEN Outcome(buf, ts, NoExc, 0, << >>)
    ELSE LET ts1 == IF Len(buf) = 0 THEN Some(timestamp) ELSE ts
             buf1 == buf \o docs
         IN IF Len(buf1) > sz
            THEN flush(buf1, ts1, res)
            ELSE Outcome(buf1, ts1, NoExc, 0, << >>)

\* Mutant: input that cannot be normalized is ignored without an error.
add_ignores_invalid(buf, ts, sz, funcs, nopd, b, timestamp, now, res) ==
    LET norm == _ensure_list(b, nopd) IN
    IF ~norm.ok
    THEN Outcome(buf, ts, NoExc, 0, << >>)
    ELSE _add(buf, ts, sz, _apply_metadata_funcs(norm.docs, funcs),
              IF timestamp = None THEN now ELSE timestamp[1], res)

\* ElasticBuffer.add: timestamp is None or a value, now is time.time()
add(buf, ts, sz, funcs, nopd, b, timestamp, now, res) ==
    LET norm == _ensure_list(b, nopd) IN
    IF ~norm.ok
    THEN Outcome(buf, ts, norm.exc, 0, << >>)
    ELSE _add(buf, ts, sz, _apply_metadata_funcs(norm.docs, funcs),
              IF timestamp = None THEN now ELSE timestamp[1], res)


(* ------------------------------- exit --------------------------------- *)
\* json.dumps(doc) + '\n': one line of text holding the serialized document
dumps(doc) == [ json |-> doc ]

\* ElasticBuffer._to_file: the file written, named from the class and timestamp
_to_file(buf, dir, timestamp) ==
    [ dir |-> dir, name |-> << "ElasticBuffer_buffer_dump_", timestamp >>,
      lines |-> [ i \in 1..Len(buf) |-> dumps(buf[i]) ] ]

\* The files ElasticBuffer.__exit__ writes: with an exception propagating and
\* a dump directory set it calls _to_file, whatever the buffer holds; io_ok is
\* whether open() can create the file.
exit_files(buf, dir, err_raised, io_ok, now) ==
    IF err_raised /\ dir # None /\ io_ok
    THEN << _to_file(buf, dir[1], now) >>
    ELSE << >>

\* Mutant: the buffer is flushed on exit whether or not an exception propagates.
exit_always_flushes(buf, ts, dir, err_raised, io_ok, res) == flush(buf, ts, res)

\* Mutant: a flush error on exit is swallowed.
exit_swallows_flush_error(buf, ts, dir, err_raised, io_ok, res) ==
    IF ~err_raised
    THEN LET o == flush(buf, ts, res) IN Outcome(o.buffer, o.ts, NoExc, 1, o.bulk)
    ELSE IF dir # None /\ ~io_ok
    THEN Outcome(buf, ts, OSError, 0, << >>)
    ELSE Outcome(buf, ts, NoExc, 0, << >>)

\* Mutant: the buffer is cleared once it has been dumped.
exit_clears_after_dump(buf, ts, dir, err_raised, io_ok, res) ==
    IF ~err_raised
    THEN flush(buf, ts, res)
    ELSE IF dir # None /\ ~io_ok
    THEN Outcome(buf, ts, OSError, 0, << >>)
    ELSE IF dir # None
    THEN Outcome(<< >>, None, NoExc, 0, << >>)
    ELSE Outcome(buf, ts, NoExc, 0, << >>)

\* Mutant: an empty buffer is not flushed on exit.
exit_skips_empty_buffer(buf, ts, dir, err_raised, io_ok, res) ==
    IF ~err_raised
    THEN IF Len(buf) = 0 THEN Outcome(buf, ts, NoExc, 0, << >>) ELSE flush(buf, ts, res)
    ELSE IF dir # None /\ ~io_ok
    THEN Outcome(buf, ts, OSError, 0, << >>)
    ELSE Outcome(buf, ts, NoExc, 0, << >>)

\* Mutant: the test of err_raised is inverted.
exit_inverted(buf, ts, dir, err_raised, io_ok, res) ==
    IF err_raised
    THEN flush(buf, ts, res)
    ELSE IF dir # None /\ ~io_ok
    THEN Outcome(buf, ts, OSError, 0, << >>)
    ELSE Outcome(buf, ts, NoExc, 0, << >>)

\* ElasticBuffer.__exit__: the buffer state it leaves and what it raises
exit(buf, ts, dir, err_raised, io_ok, res) ==
    IF ~err_raised
    THEN flush(buf, ts, res)
    ELSE IF dir # None /\ ~io_ok
    THEN Outcome(buf, ts, OSError, 0, << >>)
    ELSE Outcome(buf, ts, NoExc, 0, << >>)

(* ---------------------------- elapsed time --------------------------- *)
\* What a caller can pass for a timestamp, and what the computation returns:
\* a number, math.inf negated, or something that is no number (a str, None).
Float(x) == [ kind |-> "float", num |-> x ]
MinusInf == [ kind |-> "-inf", num |-> 0 ]
NonNumbers == { [ kind |-> "str", num |-> 0 ], [ kind |-> "NoneType", num |-> 0 ] }
NoValue == [ kind |-> "raised", num |-> 0 ]

\* What float - float raises for an operand that is no number, re-raised
TypeError(msg) ==
    [ type |-> "TypeError", msg |-> msg, n_fail |-> 0, n_total |-> 0, err |-> "None" ]

\* Mutant: the timestamp is validated before the buffer is looked at.
_get_oldest_elapsed_time_from_validates_first(ts, timestamp) ==
    IF timestamp.kind # "float"
    THEN [ exc |-> TypeError("Cannot use non-float as numeric value for computing elapsed time"),
           value |-> NoValue ]
    ELSE IF ts = None
    THEN [ exc |-> NoExc, value |-> MinusInf ]
    ELSE [ exc |-> NoExc, value |-> Float(timestamp.num - ts[1]) ]

\* Mutant: a timestamp that is no number is answered like an empty buffer.
_get_oldest_elapsed_time_from_swallows(ts, timestamp) ==
    IF ts = None \/ timestamp.kind # "float"
    THEN [ exc |-> NoExc, value |-> MinusInf ]
    ELSE [ exc |-> NoExc, value |-> Float(timestamp.num - ts[1]) ]

\* ElasticBuffer._get_oldest_elapsed_time_from
_get_oldest_elapsed_time_from(ts, timestamp) ==
    IF ts = None
    THEN [ exc |-> NoExc, value |-> MinusInf ]
    ELSE IF timestamp.kind = "float"
    THEN [ exc |-> NoExc, value |-> Float(timestamp.num - ts[1]) ]
    ELSE [ exc |-> TypeError("Cannot use non-float as numeric value for computing elapsed time"),
           value |-> NoValue ]

(* ------------------------------ bundles ------------------------------- *)
GivenTimes == { Some(t) : t \in Times }

DictBundle(d) == [ kind |-> "dict", value |-> d ]
ListBundle(ds) == [ kind |-> "list", value |-> ds ]
IntBundle == [ kind |-> "int", value |-> 5 ]
SeriesBundles ==
    [ kind : {"series"}, name : { Some("a") }, index_name : { None },
      index : { << 0 >> }, values : { << 1 >> } ]
FrameBundles ==
    [ kind : {"frame"}, columns : { << "a", "_id" >> }, index_name : { None },
      index : { << 0 >> }, rows : { << << 2, 7 >> >> } ]

\* The bundles the normalizer is applied to on its own: every series and
\* frame of up to MaxRows rows, with a name or none, with its index unnamed or
\* named by a string, by the empty string or by the integer 0.  The index name
\* is never the key of a column (reset_index refuses such a frame).
NoBundle == [ kind |-> "none" ]
NotCalled == [ ok |-> FALSE, docs |-> << >>, exc |-> NoExc ]
Cells == { 1, 2 }
IndexLabels == << 11, 12, 13, 14 >>
IndexNames == { None, Some("k"), Some(""), Some(DefaultColumn) }
AllSeries ==
    { sr \in UNION { [ kind : {"series"}, name : { None, Some("a") },
                       index_name : IndexNames,
                       index : { SubSeq(IndexLabels, 1, n) }, values : [ 1..n -> Cells ] ]
                     : n \in 0..MaxRows } :
        sr.name = None => sr.index_name # Some(DefaultColumn) }
AllFrames ==
    UNION { [ kind : {"frame"}, columns : { cols }, index_name : IndexNames,
              index : { SubSeq(IndexLabels, 1, n) },
              rows : [ 1..n -> [ 1..Len(cols) -> Cells ] ] ]
            : cols \in { << "a" >>, << "a", "_id" >> }, n \in 0..MaxRows }


(* ------------------------------ actions ------------------------------- *)
\* The record of one call.  returned is the value of a call that raised
\* nothing: __enter__ returns the instance, every other method None (so
\* __exit__ never asks for the propagating exception to be suppressed).
\* docs are the documents an add appends and given what _ensure_list made of
\* its argument; each call of bulk is recorded with the keyword arguments it
\* was passed, **self.bulk_kwargs.
Call(op, docs, timestamp, err_raised, o, dumped) ==
    [ op |-> op, docs |-> docs, given |-> << >>, timestamp |-> timestamp,
      err_raised |-> err_raised, exc |-> o.exc, flush_calls |-> o.flush_calls,
      bulk |-> [ i \in 1..Len(o.bulk) |->
                   [ docs |-> o.bulk[i].docs, res |-> o.bulk[i].res,
                     kwargs |-> bulk_kwargs ] ],
      dumped |-> dumped,
      returned |-> IF op = "enter" THEN "self" ELSE "None" ]

\* The instances constructed: ElasticBuffer(size=s) with every other argument
\* defaulted; ElasticBuffer(size=s, dump_dir='dumps', _id=func); and
\* ElasticBuffer(size=s) where pandas cannot be imported.
\* ElasticBuffer._construct_bulk_kwargs
DefaultMaxRetries == 3
EmptyDict == [ k \in {} |-> 0 ]
\* Mutant: the two defaults override what the caller passed.
_construct_bulk_kwargs_defaults_win(sz, given) ==
    Update(IF given = None THEN EmptyDict ELSE given[1],
           [ max_retries |-> DefaultMaxRetries, chunk_size |-> sz ])

_construct_bulk_kwargs(sz, given) ==
    Update([ max_retries |-> DefaultMaxRetries, chunk_size |-> sz ],
           IF given = None THEN EmptyDict ELSE given[1])

\* The constructions: the defaults; a dump directory, a metadata function,
\* truncated errors and bulk_kwargs setting chunk_size and another option;
\* pandas missing and bulk_kwargs setting max_retries.
Constructions ==
    { [ dump_dir |-> None, metadata_funcs |-> {}, no_pandas |-> FALSE,
        verbose_errs |-> TRUE, bulk_kwargs |-> None ],
      [ dump_dir |-> Some("dumps"), metadata_funcs |-> MetaFields, no_pandas |-> FALSE,
        verbose_errs |-> FALSE,
        bulk_kwargs |-> Some([ chunk_size |-> 9, request_timeout |-> 30 ]) ],
      [ dump_dir |-> None, metadata_funcs |-> {}, no_pandas |-> TRUE,
        verbose_errs |-> TRUE, bulk_kwargs |-> Some([ max_retries |-> 0 ]) ] }

\* The callers sharing one instance, and where a caller stands:
\*   "idle"       in no call
\*   "size_test"  in _add, the documents appended, before `if len(self) > self.size`
\*   "flush"      at the entry of flush
\*   "bulk"       in flush, bulk called and not yet returned
\*   "clear"      in flush, every test passed, before _clear_buffer
Callers == { "t1", "t2" }

\* ElasticBuffer.__init__
Constructed ==
    /\ size \in Sizes
    /\ \E c \in Constructions :
         /\ dump_dir = c.dump_dir
         /\ metadata_funcs = c.metadata_funcs
         /\ no_pandas = c.no_pandas
         /\ verbose_errs = c.verbose_errs
         /\ given_bulk_kwargs = c.bulk_kwargs
         /\ bulk_kwargs = _construct_bulk_kwargs(size, c.bulk_kwargs)
    /\ buffer = << >>
    /\ oldest_doc_timestamp = None
    /\ n_added = 0
    /\ n_bulk = 0
    /\ last = Call("init", << >>, None, FALSE, Outcome(<< >>, None, NoExc, 0, << >>), << >>)
    /\ arg = NoBundle
    /\ ret = NotCalled
    /\ pc = [ p \in Callers |-> "idle" ]
    /\ sent = [ p \in Callers |-> << >> ]
    /\ submitted = << >>
    /\ lost = FALSE
    /\ false_shortfall = FALSE
    /\ log = << >>
    /\ raised = None
    /\ rendered = ""
    /\ scope = "out"
    /\ propagating = "none"
    /\ scope_flushes = 0
    /\ scope_overflows = 0
    /\ indexed = << >>
    /\ retrying = None

\* One caller, each call running to its end before the next
Init == Constructed /\ serialized = TRUE

\* eb.__enter__(): entering a with-block; it returns the instance
Enter ==
    /\ last' = Call("enter", << >>, None, FALSE,
                    Outcome(buffer, oldest_doc_timestamp, NoExc, 0, << >>), << >>)
    /\ UNCHANGED << config, buffer, oldest_doc_timestamp >>

\* eb.add(b, timestamp) at clock reading now
Add(b, timestamp, now) ==
    LET norm == _ensure_list(b, no_pandas)
        docs == _apply_metadata_funcs(norm.docs, metadata_funcs)
    IN /\ Len(buffer) + Len(docs) <= MaxBuf
       /\ \E res \in Answers(Len(docs) > 0 /\ Len(buffer) + Len(docs) > size,
                              Len(buffer) + Len(docs)) :
            LET o == add(buffer, oldest_doc_timestamp, size, metadata_funcs,
                         no_pandas, b, timestamp, now, res)
            IN /\ buffer' = o.buffer
               /\ oldest_doc_timestamp' = o.ts
               /\ last' = [ Call("add", docs,
                                 IF timestamp = None THEN Some(now) ELSE timestamp,
                                 FALSE, o, << >>)
                            EXCEPT !.given = norm.docs ]
       /\ UNCHANGED config

\* eb.flush()
Flush ==
    /\ \E res \in Answers(TRUE, Len(buffer)) :
         LET o == flush(buffer, oldest_doc_timestamp, res)
         IN /\ buffer' = o.buffer
            /\ oldest_doc_timestamp' = o.ts
            /\ last' = Call("flush", << >>, None, FALSE, o, << >>)
    /\ UNCHANGED config

\* eb.__exit__(exc_type, exc_val, exc_tb): leaving a with-block, with
\* (err_raised) or without an exception propagating out of it
Exit(err_raised, now, io_ok) ==
    /\ LET dumped == exit_files(buffer, dump_dir, err_raised, io_ok, now)
       IN \E res \in Answers(~err_raised, Len(buffer)) :
            LET o == exit(buffer, oldest_doc_timestamp, dump_dir, err_raised, io_ok, res)
            IN /\ buffer' = o.buffer
               /\ oldest_doc_timestamp' = o.ts
               /\ last' = Call("exit", << >>, None, err_raised, o, dumped)
    /\ UNCHANGED config

\* add with a timestamp passed (the clock is then not read: now is immaterial),
\* one action per type of bundle, and add with no timestamp, at each clock reading
AddDict == \E d \in Docs, t \in GivenTimes : Add(DictBundle(d), t, t[1])
AddList == \E ds \in SeqsUpTo(Docs, MaxBundle), t \in GivenTimes : Add(ListBundle(ds), t, t[1])
AddSeries == \E b \in SeriesBundles, t \in GivenTimes : Add(b, t, t[1])
AddFrame == \E b \in FrameBundles, t \in GivenTimes : Add(b, t, t[1])
AddOther == \E t \in GivenTimes : Add(IntBundle, t, t[1])
AddNow == \E d \in Docs, now \in Times : Add(DictBundle(d), None, now)
\* The file system's answers to __exit__: the dump file is opened only with an
\* exception propagating and a dump directory set.
FileSystem(err_raised) == IF err_raised /\ dump_dir # None THEN BOOLEAN ELSE { TRUE }
ExitScope == \E e \in BOOLEAN, now \in Times : \E io_ok \in FileSystem(e) : Exit(e, now, io_ok)

\* The documents appended since flush last returned normally
Logged ==
    log' = IF last'.flush_calls >= 1 /\ last'.exc.type = "none"
           THEN << >>
           ELSE log \o (IF last'.op = "add" THEN last'.docs ELSE << >>)

\* What the calls on one instance by one caller leave alone
parked == << normalizer, callers, rendering, scoped, retry >>

\* Any sequence of calls on one instance.
Next ==
    \/ Enter /\ Logged /\ UNCHANGED << counters, parked >>
    \/ AddDict /\ Logged /\ UNCHANGED << counters, parked >>
    \/ AddList /\ Logged /\ UNCHANGED << counters, parked >>
    \/ AddSeries /\ Logged /\ UNCHANGED << counters, parked >>
    \/ AddFrame /\ Logged /\ UNCHANGED << counters, parked >>
    \/ AddOther /\ Logged /\ UNCHANGED << counters, parked >>
    \/ AddNow /\ Logged /\ UNCHANGED << counters, parked >>
    \/ Flush /\ Logged /\ UNCHANGED << counters, parked >>
    \/ ExitScope /\ Logged /\ UNCHANGED << counters, parked >>

Spec == Init /\ [][Next]_vars

\* A fresh instance that receives add calls only, with the documents appended
\* and the calls of bulk counted.
Counted ==
    /\ n_added + Len(last'.docs) <= MaxAdded
    /\ n_added' = n_added + Len(last'.docs)
    /\ n_bulk' = n_bulk + Len(last'.bulk)
    /\ Logged
    /\ UNCHANGED parked

FreshNext ==
    \/ AddDict /\ Counted
    \/ AddList /\ Counted
    \/ AddSeries /\ Counted
    \/ AddFrame /\ Counted
    \/ AddOther /\ Counted
    \/ AddNow /\ Counted

FreshSpec == Init /\ [][FreshNext]_vars

\* ElasticBuffer._ensure_list(b), called on its own (it is a static method),
\* once
EnsureList(b) ==
    /\ arg = NoBundle
    /\ arg' = b
    /\ ret' = _ensure_list(b, no_pandas)
    /\ UNCHANGED << config, buffer, oldest_doc_timestamp, counters, last, callers,
                    log, rendering, scoped, retry >>

EnsureDict == \E d \in Docs : EnsureList(DictBundle(d))
EnsureListOfDicts == \E ds \in SeqsUpTo(Docs, MaxBundle) : EnsureList(ListBundle(ds))
EnsureSeries == \E b \in AllSeries : EnsureList(b)
EnsureFrame == \E b \in AllFrames : EnsureList(b)
EnsureOther == EnsureList(IntBundle)

NormNext ==
    \/ EnsureDict
    \/ EnsureListOfDicts
    \/ EnsureSeries
    \/ EnsureFrame
    \/ EnsureOther

NormSpec == Init /\ [][NormNext]_vars

(* ---------------------------- elapsed time --------------------------- *)
\* eb._get_oldest_elapsed_time_from(timestamp), recorded under the name op
GetElapsed(op, timestamp) ==
    LET r == _get_oldest_elapsed_time_from(oldest_doc_timestamp, timestamp) IN
    /\ last' = [ Call(op, << >>, timestamp, FALSE,
                      Outcome(buffer, oldest_doc_timestamp, r.exc, 0, << >>), << >>)
                 EXCEPT !.returned = r.value ]
    /\ UNCHANGED << config, buffer, oldest_doc_timestamp >>

ElapsedFromNumber == \E t \in Times : GetElapsed("_get_oldest_elapsed_time_from", Float(t))
ElapsedFromOther == \E x \in NonNumbers : GetElapsed("_get_oldest_elapsed_time_from", x)
\* eb.oldest_elapsed_time at clock reading now
OldestElapsedTime == \E now \in Times : GetElapsed("oldest_elapsed_time", Float(now))

\* Adds, flushes and elapsed-time queries on one instance.
ElapsedNext ==
    \/ AddDict /\ Logged /\ UNCHANGED << counters, parked >>
    \/ AddNow /\ Logged /\ UNCHANGED << counters, parked >>
    \/ Flush /\ Logged /\ UNCHANGED << counters, parked >>
    \/ ElapsedFromNumber /\ Logged /\ UNCHANGED << counters, parked >>
    \/ ElapsedFromOther /\ Logged /\ UNCHANGED << counters, parked >>
    \/ OldestElapsedTime /\ Logged /\ UNCHANGED << counters, parked >>

ElapsedSpec == Init /\ [][ElapsedNext]_vars

(* --------------------------- the with-block --------------------------- *)
\* with eb: <body>, the body calling eb.add.  An exception raised in the body,
\* by add or by the body itself, is not caught there and leaves the block;
\* __exit__ is then called with it and, returning None, lets it propagate
\* unless it raises itself.  scope is
\*   "out"      before the block
\*   "in"       in its body
\*   "raising"  an exception raised in the body, __exit__ not yet called
\*   "exited"   after __exit__
\* Documents appended are counted, before and in the block.
Tallied ==
    /\ n_added + Len(last'.docs) <= MaxAdded
    /\ n_added' = n_added + Len(last'.docs)
    /\ Logged
    /\ UNCHANGED << n_bulk, normalizer, callers, rendering, retry >>

\* A call made before the block
OutOfScope == scope = "out" /\ UNCHANGED scoped

\* __enter__
ScopeEnter ==
    /\ scope = "out"
    /\ Enter
    /\ scope' = "in"
    /\ propagating' = "none"
    /\ scope_flushes' = 0
    /\ scope_overflows' = 0

\* A call of add in the body: whether it appended documents that brought the
\* buffer above its size, how often it invoked flush, what it raised
InScope ==
    /\ scope = "in"
    /\ scope_flushes' = scope_flushes + last'.flush_calls
    /\ scope_overflows' = scope_overflows +
          (IF Len(last'.docs) > 0 /\ Len(buffer) + Len(last'.docs) > size THEN 1 ELSE 0)
    /\ propagating' = last'.exc.type
    /\ scope' = IF last'.exc.type = "none" THEN "in" ELSE "raising"

\* raise ValueError() in the body
BodyRaises ==
    /\ scope = "in"
    /\ scope' = "raising"
    /\ propagating' = "ValueError"
    /\ UNCHANGED << config, buffer, oldest_doc_timestamp, last, counters, log,
                    normalizer, callers, rendering, scope_flushes, scope_overflows, retry >>

\* __exit__ at the end of the body or with the exception raised in it; an
\* exception __exit__ raises replaces the one it was called with.
ScopeExit ==
    /\ scope \in { "in", "raising" }
    /\ \E now \in Times : \E io_ok \in FileSystem(scope = "raising") :
         Exit(scope = "raising", now, io_ok)
    /\ scope' = "exited"
    /\ scope_flushes' = scope_flushes + last'.flush_calls
    /\ scope_overflows' = scope_overflows
    /\ propagating' = IF last'.exc.type # "none" THEN last'.exc.type ELSE propagating

ScopeNext ==
    \/ AddDict /\ OutOfScope /\ Tallied
    \/ ScopeEnter /\ Tallied
    \/ AddDict /\ InScope /\ Tallied
    \/ AddList /\ InScope /\ Tallied
    \/ AddOther /\ InScope /\ Tallied
    \/ BodyRaises
    \/ ScopeExit /\ Tallied

\* The instances constructed where pandas can be imported
ScopeInit == Init /\ ~no_pandas

ScopeSpec == ScopeInit /\ [][ScopeNext]_vars

(* --------------------- errors raised and printed ---------------------- *)
\* The messages and root causes an ElasticBufferFlushError is constructed
\* with, and what the transport raises or reports: the texts carry what
\* Elasticsearch says of the rejected documents.
Messages == { None, Some("error message") }
Strings == { "we have a big problem" }
Lists == { << >>, << "error1", "error2", "error3" >> }
Exceptions ==
    { ExceptionCause(None, "ValueError", "we have a big problem"),
      ExceptionCause(Some("elasticsearch.exceptions"), "ElasticsearchException",
                     "we have a big problem") }
Causes ==
    { NoCause } \cup { StrCause(s) : s \in Strings } \cup { ListCause(l) : l \in Lists }
    \cup Exceptions
Faults ==
    { ExceptionCause(Some("elasticsearch.exceptions"), "ElasticsearchException", t) :
        t \in { "connection refused", "rejected {a: 1}" } }
BulkErrs == { << "err1" >>, << "rejected {a: 2, _id: 7}", "err2" >> }

\* The exception of the call just made, if it is an ElasticBufferFlushError,
\* is kept and printed.
Thrown ==
    IF last'.exc.type = "ElasticBufferFlushError"
    THEN \E fault \in Faults, bulk_errs \in BulkErrs :
           /\ raised' = Some(flush_raise(last'.exc, fault, bulk_errs, verbose_errs))
           /\ rendered' = __str__(raised'[1])
    ELSE UNCHANGED rendering

\* str(ElasticBufferFlushError(msg, err, verbose))
Str(msg, err, verbose) ==
    /\ raised' = Some(ElasticBufferFlushError(msg, err, verbose))
    /\ rendered' = __str__(raised'[1])
    /\ last' = Call("str", << >>, None, FALSE,
                    Outcome(buffer, oldest_doc_timestamp, NoExc, 0, << >>), << >>)
    /\ UNCHANGED << config, buffer, oldest_doc_timestamp >>

StrOfNone == \E msg \in Messages, v \in BOOLEAN : Str(msg, NoCause, v)
StrOfString == \E msg \in Messages, s \in Strings, v \in BOOLEAN : Str(msg, StrCause(s), v)
StrOfList == \E msg \in Messages, l \in Lists, v \in BOOLEAN : Str(msg, ListCause(l), v)
StrOfException == \E msg \in Messages, e \in Exceptions, v \in BOOLEAN : Str(msg, e, v)

ErrNext ==
    \/ AddDict /\ Logged /\ Thrown /\ UNCHANGED << counters, normalizer, callers, scoped, retry >>
    \/ Flush /\ Logged /\ Thrown /\ UNCHANGED << counters, normalizer, callers, scoped, retry >>
    \/ StrOfNone /\ Logged /\ UNCHANGED << counters, normalizer, callers, scoped, retry >>
    \/ StrOfString /\ Logged /\ UNCHANGED << counters, normalizer, callers, scoped, retry >>
    \/ StrOfList /\ Logged /\ UNCHANGED << counters, normalizer, callers, scoped, retry >>
    \/ StrOfException /\ Logged /\ UNCHANGED << counters, normalizer, callers, scoped, retry >>

ErrSpec == Init /\ [][ErrNext]_vars

(* ------------------------- flush, tried again -------------------------- *)
\* What Elasticsearch did with the documents of a call of bulk: of n
\* documents it indexed as many as the count it returned, whichever they
\* are, and those sent before the failing request, in order, when the call
\* raised.  indexed counts, for each
\* document of the buffer (of the last call of bulk, once the buffer is
\* empty), the calls that indexed it, MaxIndexed standing for that many or
\* more.
MaxIndexed == 2
Min(a, b) == IF a <= b THEN a ELSE b
Pad(counts, n) == [ i \in 1..n |-> IF i <= Len(counts) THEN counts[i] ELSE 0 ]
IndexedBy(res, n) ==
    IF res.raises THEN { 1..k : k \in 0..n }
    ELSE { S \in SUBSET (1..n) : Cardinality(S) = Min(res.n_success, n) }

Indexed ==
    LET called == Len(last'.bulk) >= 1
        n == IF called THEN Len(last'.bulk[1].docs) ELSE Len(buffer')
        base == IF Len(buffer) = 0 THEN Pad(<< >>, n) ELSE Pad(indexed, n)
    IN IF n = 0 THEN indexed' = indexed
       ELSE IF called
       THEN \E S \in IndexedBy(last'.bulk[1].res, n) :
              indexed' = [ i \in 1..n |->
                             IF i \in S THEN Min(base[i] + 1, MaxIndexed) ELSE base[i] ]
       ELSE indexed' = base

\* A caller that adds documents and calls flush, and at some point stops
\* adding: from then on it calls flush only.
Retried ==
    /\ Logged
    /\ Indexed
    /\ UNCHANGED << counters, normalizer, callers, rendering, scoped, retrying >>

StopAdding ==
    /\ retrying = None
    /\ retrying' = Some(buffer)
    /\ UNCHANGED << config, buffer, oldest_doc_timestamp, last, counters, log,
                    normalizer, callers, rendering, scoped, indexed >>

\* eb.add(d, 1) while the caller still adds; it stops at MaxRetried documents
MaxRetried == 2
AddRetried ==
    /\ retrying = None
    /\ Len(buffer) < MaxRetried
    /\ \E d \in Docs : Add(DictBundle(d), Some(1), 1)

RetryNext ==
    \/ AddRetried /\ Retried
    \/ Flush /\ Retried
    \/ StopAdding

\* ElasticBuffer(size=s), every other argument defaulted
RetryInit == Init /\ dump_dir = None /\ ~no_pandas

RetrySpec == RetryInit /\ [][RetryNext]_vars

\* The caller keeps calling flush, and bulk at some time indexes every
\* document and returns their number with no errors.
FlushDrains ==
    /\ retrying # None
    /\ Len(buffer) > 0
    /\ Flush
    /\ Retried
    /\ Len(buffer') = 0

RetryLiveSpec == RetryInit /\ [][RetryNext]_vars /\ WF_vars(FlushDrains)

(* --------------------------- several callers -------------------------- *)
\* Callers of add and flush on one instance, a step being what one caller does
\* between two points where another can run.  With serialized set a caller
\* steps only while every other caller is in no call.  bulk is taken to read
\* the list it is given when it is called.
MayStep(p) == serialized => \A q \in Callers \ { p } : pc[q] = "idle"

\* add(d, timestamp) up to and including self._buffer.extend(docs)
Extend(p, d, timestamp) ==
    LET docs == _apply_metadata_funcs(_ensure_list(DictBundle(d), no_pandas).docs,
                                      metadata_funcs)
    IN /\ pc[p] = "idle"
       /\ MayStep(p)
       /\ Len(buffer) + Len(docs) <= MaxBuf
       /\ oldest_doc_timestamp' =
            IF Len(buffer) = 0 THEN Some(timestamp) ELSE oldest_doc_timestamp
       /\ buffer' = buffer \o docs
       /\ submitted' = submitted \o [ i \in 1..Len(docs) |-> FALSE ]
       /\ pc' = [ pc EXCEPT ![p] = "size_test" ]
       /\ UNCHANGED << sent, lost, false_shortfall >>

\* _add: if len(self) > self.size: self.flush()
SizeTest(p) ==
    /\ pc[p] = "size_test"
    /\ MayStep(p)
    /\ pc' = [ pc EXCEPT ![p] = IF Len(buffer) > size THEN "flush" ELSE "idle" ]
    /\ UNCHANGED << buffer, oldest_doc_timestamp, sent, submitted, lost, false_shortfall >>

\* eb.flush() is called
CallFlush(p) ==
    /\ pc[p] = "idle"
    /\ MayStep(p)
    /\ pc' = [ pc EXCEPT ![p] = "flush" ]
    /\ UNCHANGED << buffer, oldest_doc_timestamp, sent, submitted, lost, false_shortfall >>

\* flush: if len(self) == 0: return; then bulk is called with self._buffer
CallBulk(p) ==
    /\ pc[p] = "flush"
    /\ MayStep(p)
    /\ IF Len(buffer) = 0
       THEN /\ pc' = [ pc EXCEPT ![p] = "idle" ]
            /\ UNCHANGED << sent, submitted >>
       ELSE /\ pc' = [ pc EXCEPT ![p] = "bulk" ]
            /\ sent' = [ sent EXCEPT ![p] = buffer ]
            /\ submitted' = [ i \in 1..Len(buffer) |-> TRUE ]
    /\ UNCHANGED << buffer, oldest_doc_timestamp, lost, false_shortfall >>

\* bulk returns or raises, and flush tests what it returned
BulkReturns(p) ==
    /\ pc[p] = "bulk"
    /\ MayStep(p)
    /\ \E res \in BulkResults(Len(sent[p])) :
         LET o == flush_resume(sent[p], buffer, oldest_doc_timestamp, res) IN
         /\ pc' = [ pc EXCEPT ![p] = IF o.exc = NoExc THEN "clear" ELSE "idle" ]
         /\ false_shortfall' =
              \/ false_shortfall
              \/ /\ ~res.raises
                 /\ Len(res.bulk_errs) = 0
                 /\ res.n_success = Len(sent[p])
                 /\ o.exc.type = "ElasticBufferFlushError"
    /\ sent' = [ sent EXCEPT ![p] = << >> ]
    /\ UNCHANGED << buffer, oldest_doc_timestamp, submitted, lost >>

\* flush: self._clear_buffer()
ClearBuffer(p) ==
    /\ pc[p] = "clear"
    /\ MayStep(p)
    /\ LET c == _clear_buffer(buffer, oldest_doc_timestamp) IN
         /\ buffer' = c.buffer
         /\ oldest_doc_timestamp' = c.ts
    /\ lost' = (lost \/ \E i \in 1..Len(submitted) : ~submitted[i])
    /\ submitted' = << >>
    /\ pc' = [ pc EXCEPT ![p] = "idle" ]
    /\ UNCHANGED << sent, false_shortfall >>

Sequential ==
    UNCHANGED << config, counters, last, normalizer, serialized, log, rendering, scoped, retry >>

ConcNext ==
    \/ \E p \in Callers, d \in Docs, t \in Times : Extend(p, d, t) /\ Sequential
    \/ \E p \in Callers : SizeTest(p) /\ Sequential
    \/ \E p \in Callers : CallFlush(p) /\ Sequential
    \/ \E p \in Callers : CallBulk(p) /\ Sequential
    \/ \E p \in Callers : BulkReturns(p) /\ Sequential
    \/ \E p \in Callers : ClearBuffer(p) /\ Sequential

\* An instance constructed with the defaults, shared with or without a mutex
ConcInit ==
    /\ Constructed
    /\ dump_dir = None
    /\ metadata_funcs = {}
    /\ ~no_pandas
    /\ serialized \in BOOLEAN

ConcSpec == ConcInit /\ [][ConcNext]_vars

(* ------------------------------ claims -------------------------------- *)
\* A step is one call.  Within the step of a call that invoked flush, the
\* buffer fields at the moment flush was entered are those before the call,
\* with the documents of an add appended and its timestamp recorded.
FlushErrorType == "ElasticBufferFlushError"
FlushInvoked == last'.flush_calls >= 1
TransportCalled == Len(last'.bulk) >= 1
PendingAtFlush == IF last'.op = "add" THEN buffer \o last'.docs ELSE buffer
TimestampAtFlush ==
    IF last'.op = "add" /\ Len(buffer) = 0 THEN last'.timestamp ELSE oldest_doc_timestamp
Answer == last'.bulk[1].res
FullSuccess(r, n) == ~r.raises /\ Len(r.bulk_errs) = 0 /\ r.n_success = n

\* C1: in every reachable state, also after a call that raised, the timestamp
\* of the oldest document is unset if and only if the buffer is empty.
C1_TimestampUnsetIffEmpty ==
    (oldest_doc_timestamp = None) <=> (Len(buffer) = 0)

C1_Witness ==
    /\ last.exc.type = FlushErrorType
    /\ Len(buffer) > 0
    /\ oldest_doc_timestamp # None

\* C2: a flush of a non-empty buffer to which the transport answers with a
\* fault, with a non-empty error list or with a success count below the number
\* of pending documents raises a flush error and leaves the pending documents
\* and the oldest timestamp exactly as they were when flush was entered.
C2_FailedFlushKeepsState ==
    [][ ( /\ FlushInvoked /\ TransportCalled
          /\ Len(PendingAtFlush) > 0
          /\ \/ Answer.raises
             \/ Len(Answer.bulk_errs) # 0
             \/ Answer.n_success < Len(PendingAtFlush) )
        => /\ last'.exc.type = FlushErrorType
           /\ buffer' = PendingAtFlush
           /\ oldest_doc_timestamp' = TimestampAtFlush ]_vars

C2_Witness ==
    /\ last.op = "flush"
    /\ last.exc.type = FlushErrorType
    /\ last.exc.msg = "Failed to insert"
    /\ last.exc.n_fail = 1
    /\ Len(buffer) = 2
    /\ buffer = last.bulk[1].docs

\* C3: a flush of a non-empty buffer to which the transport answers with a
\* success count equal to the number of pending documents and no errors has
\* passed the transport exactly the pending documents, in order, and leaves the
\* buffer empty and the oldest timestamp unset.
C3_SuccessfulFlushSendsAllAndClears ==
    [][ ( /\ FlushInvoked /\ TransportCalled
          /\ Len(PendingAtFlush) > 0
          /\ FullSuccess(Answer, Len(PendingAtFlush)) )
        => /\ Len(last'.bulk) = 1
           /\ last'.bulk[1].docs = PendingAtFlush
           /\ last'.exc.type = "none"
           /\ buffer' = << >>
           /\ oldest_doc_timestamp' = None ]_vars

C3_Witness ==
    /\ last.op = "flush"
    /\ last.exc.type = "none"
    /\ Len(last.bulk) = 1
    /\ Len(last.bulk[1].docs) = 2
    /\ last.bulk[1].docs[1] # last.bulk[1].docs[2]
    /\ Len(buffer) = 0
    /\ oldest_doc_timestamp = None

\* C4 (FreshSpec): after any sequence of add calls on a fresh buffer that
\* appended n <= size documents in total, the buffer holds n documents and the
\* transport has not been called; holding exactly size documents flushes nothing.
C4_NoFlushUpToCapacity ==
    (n_added <= size) => (Len(buffer) = n_added /\ n_bulk = 0)

C4_Witness ==
    /\ size > 1
    /\ n_added = size
    /\ Len(buffer) = size
    /\ n_bulk = 0
    /\ Len(last.docs) = 1

\* C5: an add call that appends documents invokes flush exactly once, after
\* the append (the transport is passed the appended documents too), when the
\* append leaves more than size documents pending, and does not invoke flush
\* when the append leaves size documents or fewer.
C5_AddFlushesOnceWhenOverCapacity ==
    [][ (last'.op = "add" /\ Len(last'.docs) > 0)
        => IF Len(buffer) + Len(last'.docs) > size
           THEN /\ last'.flush_calls = 1
                /\ Len(last'.bulk) = 1
                /\ last'.bulk[1].docs = buffer \o last'.docs
           ELSE /\ last'.flush_calls = 0
                /\ Len(last'.bulk) = 0 ]_vars

C5_Witness ==
    /\ last.op = "add"
    /\ last.flush_calls = 1
    /\ Len(last.bulk) = 1
    /\ Len(last.docs) = 2
    /\ Len(last.bulk[1].docs) = 3

\* C6 as stated: between calls the buffer never holds more than size documents.
C6_Original == Len(buffer) <= size

\* C6 as amended: a call leaves more than size documents pending only if it
\* raised a flush error (the failed flush keeps every pending document), or if
\* the buffer already held more than size documents and the call left it as it was.
C6_OverCapacityOnlyAfterFailedFlush ==
    [][ (Len(buffer') > size)
        => \/ last'.exc.type = FlushErrorType
           \/ (Len(buffer) > size /\ buffer' = buffer) ]_vars

C6_Witness ==
    /\ last.op = "add"
    /\ last.exc.type = FlushErrorType
    /\ Len(buffer) > size

\* C7: the oldest timestamp of a non-empty buffer is the timestamp of the add
\* call that appended to the empty buffer; no later call that leaves the buffer
\* non-empty (an add with any timestamp, a failed flush) changes it.
C7_OldestTimestampIsFirstAdd ==
    [][ /\ (Len(buffer) = 0 /\ Len(buffer') > 0)
           => (last'.op = "add" /\ oldest_doc_timestamp' = last'.timestamp)
        /\ (Len(buffer) > 0 /\ Len(buffer') > 0)
           => (oldest_doc_timestamp' = oldest_doc_timestamp) ]_vars

C7_Witness ==
    /\ last.op = "add"
    /\ Len(last.docs) > 0
    /\ Len(buffer) > Len(last.docs)
    /\ oldest_doc_timestamp # None
    /\ last.timestamp[1] < oldest_doc_timestamp[1]

\* C8 as stated: a flush of a non-empty buffer raises a flush error if and
\* only if the transport raised, returned errors, or returned a success count
\* below the number of pending documents; otherwise it clears the buffer.
C8_Original ==
    [][ (FlushInvoked /\ TransportCalled /\ Len(PendingAtFlush) > 0)
        => /\ (last'.exc.type = FlushErrorType)
                <=> \/ Answer.raises
                    \/ Len(Answer.bulk_errs) # 0
                    \/ Answer.n_success < Len(PendingAtFlush)
           /\ (last'.exc.type # FlushErrorType)
                => (last'.exc.type = "none" /\ buffer' = << >>) ]_vars

\* C8 as amended: a flush of a non-empty buffer raises a flush error if and
\* only if the transport raised, returned errors, or returned a success count
\* that differs from the number of pending documents (below or above it);
\* otherwise it clears the buffer and returns normally.
C8_FlushErrorIffFailure ==
    [][ (FlushInvoked /\ TransportCalled /\ Len(PendingAtFlush) > 0)
        => /\ (last'.exc.type = FlushErrorType)
                <=> \/ Answer.raises
                    \/ Len(Answer.bulk_errs) # 0
                    \/ Answer.n_success # Len(PendingAtFlush)
           /\ (last'.exc.type # FlushErrorType)
                => (last'.exc.type = "none" /\ buffer' = << >>) ]_vars

C8_Witness ==
    /\ Len(last.bulk) = 1
    /\ ~last.bulk[1].res.raises
    /\ Len(last.bulk[1].res.bulk_errs) = 0
    /\ last.bulk[1].res.n_success > Len(last.bulk[1].docs)
    /\ last.exc.type = FlushErrorType
    /\ buffer = last.bulk[1].docs

\* C9: one flush call makes no transport call on an empty buffer, changing
\* nothing and raising nothing, and exactly one transport call on a non-empty
\* buffer, whatever the transport answers.
C9_OneTransportCallPerFlush ==
    [][ (last'.op = "flush")
        => IF Len(buffer) = 0
           THEN /\ Len(last'.bulk) = 0
                /\ last'.exc.type = "none"
                /\ buffer' = buffer
                /\ oldest_doc_timestamp' = oldest_doc_timestamp
           ELSE Len(last'.bulk) = 1 ]_vars

C9_Witness ==
    /\ last.op = "flush"
    /\ Len(last.bulk) = 1
    /\ last.bulk[1].res.raises
    /\ last.exc.type = FlushErrorType

\* C10: __exit__ invokes flush exactly once when no exception propagated out
\* of the block, also on an empty buffer, and does not invoke flush (nor the
\* transport) when an exception propagated, whatever the buffer holds.
C10_ExitFlushesOnceUnlessException ==
    [][ (last'.op = "exit")
        => IF last'.err_raised
           THEN last'.flush_calls = 0 /\ Len(last'.bulk) = 0
           ELSE last'.flush_calls = 1 ]_vars

C10_Witness ==
    /\ last.op = "exit"
    /\ ~last.err_raised
    /\ last.flush_calls = 1
    /\ Len(last.bulk) = 0
    /\ Len(buffer) = 0

\* C11: an exit with no exception propagating has exactly two outcomes: it
\* returns with the buffer empty and the oldest timestamp unset, or it raises
\* the flush error with the buffer and the oldest timestamp as they were on
\* entry to __exit__; it never returns normally with documents in the buffer.
C11_CleanExitDrainsOrRaises ==
    [][ (last'.op = "exit" /\ ~last'.err_raised)
        => \/ /\ last'.exc.type = "none"
              /\ buffer' = << >>
              /\ oldest_doc_timestamp' = None
           \/ /\ last'.exc.type = FlushErrorType
              /\ buffer' = buffer
              /\ oldest_doc_timestamp' = oldest_doc_timestamp ]_vars

C11_Witness ==
    /\ last.op = "exit"
    /\ ~last.err_raised
    /\ last.exc.type = FlushErrorType
    /\ Len(buffer) > 0
    /\ oldest_doc_timestamp # None

C13_EmptyBufferIsNotDumped ==
    [][ (last'.op = "exit" /\ last'.err_raised /\ Len(buffer) = 0)
        => Len(last'.dumped) = 0 ]_vars

\* C14: no call removes a document from the buffer unless it was submitted in
\* a transport call that returned full success: after every step the buffer is
\* what it held plus what the call appended, or it is empty and the call's
\* one transport call was given exactly those documents, raised nothing,
\* reported no errors and counted all of them.
C14_RemovedOnlyAfterFullSuccess ==
    [][ \/ buffer' = PendingAtFlush
        \/ /\ buffer' = << >>
           /\ Len(last'.bulk) = 1
           /\ last'.bulk[1].docs = PendingAtFlush
           /\ FullSuccess(Answer, Len(PendingAtFlush)) ]_vars

C14_Witness ==
    /\ last.op = "add"
    /\ Len(last.docs) > 0
    /\ Len(last.bulk) = 1
    /\ Len(last.bulk[1].docs) > Len(last.docs)
    /\ FullSuccess(last.bulk[1].res, Len(last.bulk[1].docs))
    /\ buffer = << >>

\* C16: an add whose input normalizes to no documents (an empty list) changes
\* nothing, in every buffer state: the buffer and the oldest timestamp are
\* unchanged and neither flush nor the transport is called, also when the
\* buffer already holds more documents than its size.
C16_EmptyAddIsNoOp ==
    [][ (last'.op = "add" /\ last'.docs = << >> /\ last'.exc.type # "ValueError")
        => /\ buffer' = buffer
           /\ oldest_doc_timestamp' = oldest_doc_timestamp
           /\ last'.exc.type = "none"
           /\ last'.flush_calls = 0
           /\ Len(last'.bulk) = 0 ]_vars

C16_Witness ==
    /\ last.op = "add"
    /\ last.docs = << >>
    /\ last.exc.type = "none"
    /\ Len(buffer) > size

\* C17: an add of input of no recognized shape (an integer) raises the
\* invalid-input error in every state of the buffer, and an add that raises
\* it has changed nothing: the buffer and the oldest timestamp are unchanged
\* and neither flush nor the transport was called.
C17_InvalidInputChangesNothing ==
    [][ /\ \A t \in GivenTimes, res \in Answers(FALSE, 0) :
             add(buffer, oldest_doc_timestamp, size, metadata_funcs, no_pandas,
                 IntBundle, t, t[1], res).exc.type = "ValueError"
        /\ (last'.op = "add" /\ last'.exc.type = "ValueError")
           => /\ buffer' = buffer
              /\ oldest_doc_timestamp' = oldest_doc_timestamp
              /\ last'.flush_calls = 0
              /\ Len(last'.bulk) = 0 ]_vars

C17_Witness ==
    /\ last.op = "add"
    /\ last.exc = ValueError("Must pass one of [List, Dict, pandas.Series, pandas.DataFrame]")
    /\ Len(buffer) > 0
    /\ ~no_pandas

\* The buffers a call of add can find: up to MaxBundle documents, the oldest
\* timestamp set exactly when there are any.
Pending == SeqsUpTo(Docs, MaxBundle)
StampOf(buf) == IF Len(buf) = 0 THEN None ELSE Some(1)

\* C18: _ensure_list returns [r] for a dict r and, for a list, that list with
\* the same documents in the same order; so add(r) and add([r]), called on
\* the same buffer with the same timestamp, clock and transport answer, leave
\* the same buffer state and raise the same.
C18_DictIsWrappedListIsKept ==
    /\ arg.kind = "list" => (ret.ok /\ ret.docs = arg.value)
    /\ arg.kind = "dict"
       => /\ ret.ok
          /\ ret.docs = << arg.value >>
          /\ \A buf \in Pending, t \in GivenTimes \cup { None }, now \in Times :
               \A res \in Answers(TRUE, Len(buf) + 1) :
                 add(buf, StampOf(buf), size, metadata_funcs, no_pandas,
                     arg, t, now, res)
                 = add(buf, StampOf(buf), size, metadata_funcs, no_pandas,
                       ListBundle(<< arg.value >>), t, now, res)

C18_Witness ==
    /\ arg.kind = "list"
    /\ Len(arg.value) = 2
    /\ arg.value[1] # arg.value[2]
    /\ ret.docs = arg.value

\* C19: with pandas not importable, _ensure_list accepts exactly dicts and
\* lists, returning for them what it returns with pandas importable, and
\* every other input, a Series or DataFrame included, raises the error that
\* names only List and Dict.
C19_WithoutPandasOnlyDictAndList ==
    (no_pandas /\ arg # NoBundle)
    => IF arg.kind \in { "dict", "list" }
       THEN ret.ok /\ ret = _ensure_list(arg, FALSE)
       ELSE ~ret.ok /\ ret.exc = ValueError("Must pass one of [List, Dict]")

C19_Witness ==
    /\ no_pandas
    /\ arg.kind = "frame"
    /\ Len(arg.rows) > 0
    /\ ret.exc = ValueError("Must pass one of [List, Dict]")

\* The columns and rows of a series or frame as the caller built it
ColumnsOf(b) ==
    IF b.kind = "series"
    THEN { IF b.name = None THEN DefaultColumn ELSE b.name[1] }
    ELSE Range(b.columns)
CellOf(b, i, c) ==
    IF b.kind = "series" THEN b.values[i] ELSE b.rows[i][Position(b.columns, c)]
RowsOf(b) == IF b.kind = "series" THEN Len(b.values) ELSE Len(b.rows)

\* C20: with pandas importable, _ensure_list of a Series or DataFrame returns
\* one document per row in row order, each with one field per column (for a
\* Series the one field keyed by its name, or by 0 when it has none); when
\* the index is named each document also has a field keyed by the index name
\* holding the row's index value, and when it is unnamed there is no such
\* field.
C20_RowsBecomeDocuments ==
    (~no_pandas /\ arg.kind \in { "series", "frame" })
    => /\ ret.ok
       /\ Len(ret.docs) = RowsOf(arg)
       /\ \A i \in 1..RowsOf(arg) :
            /\ DOMAIN ret.docs[i] =
                 ColumnsOf(arg) \cup (IF arg.index_name # None
                                      THEN { arg.index_name[1] } ELSE { })
            /\ \A c \in ColumnsOf(arg) : ret.docs[i][c] = CellOf(arg, i, c)
            /\ arg.index_name # None => ret.docs[i][arg.index_name[1]] = arg.index[i]

\* C15: with the callers serialized no document is cleared that no bulk call
\* was given, and no fully successful bulk call raises the count error;
\* without serialization both happen: a document appended between a caller's
\* tests and its _clear_buffer is cleared unsubmitted, and a bulk call that
\* accepted every document it was given raises because the buffer grew.
C15_SerializedCallersLoseNothing ==
    serialized => (~lost /\ ~false_shortfall)

C15_Witness ==
    /\ ~serialized
    /\ lost
    /\ false_shortfall

C22_BufferIsAppendedInOrder ==
    buffer = log

C22_Witness ==
    /\ last.op = "add"
    /\ Len(last.docs) = 2
    /\ last.docs[1] # last.docs[2]
    /\ Len(log) = 3
    /\ buffer[1] # buffer[2]
    /\ SubSeq(buffer, 2, 3) = last.docs

\* A step that is an elapsed-time query, and whether its timestamp is a number
ElapsedQuery == last'.op \in { "_get_oldest_elapsed_time_from", "oldest_elapsed_time" }

\* C23: an elapsed-time query changes neither the buffer nor the oldest
\* timestamp; on an empty buffer it returns minus infinity whatever it is
\* passed, a value that is no number included; on a non-empty buffer, passed
\* the number t, it returns t minus the oldest timestamp.
C23_ElapsedTimeOrMinusInfinity ==
    [][ ElapsedQuery
        => /\ buffer' = buffer
           /\ oldest_doc_timestamp' = oldest_doc_timestamp
           /\ Len(buffer) = 0
              => (last'.exc.type = "none" /\ last'.returned = MinusInf)
           /\ (Len(buffer) > 0 /\ last'.timestamp.kind = "float")
              => /\ last'.exc.type = "none"
                 /\ last'.returned.kind = "float"
                 /\ last'.returned.num = last'.timestamp.num - oldest_doc_timestamp[1] ]_vars

C23_Witness ==
    /\ last.op = "_get_oldest_elapsed_time_from"
    /\ last.timestamp.kind = "str"
    /\ Len(buffer) = 0
    /\ last.returned = MinusInf

\* C24 as stated: an elapsed-time query passed a value that is no number
\* raises TypeError in every state of the buffer.
C24_Original ==
    [][ (ElapsedQuery /\ last'.timestamp.kind # "float")
        => last'.exc.type = "TypeError" ]_vars

\* C24: an elapsed-time query passed a value that is no number (a str, None)
\* raises TypeError in every state in which the buffer is non-empty, leaving
\* the buffer and the oldest timestamp unchanged; on an empty buffer it
\* raises nothing.
C24_NonNumberRaisesUnlessEmpty ==
    [][ (ElapsedQuery /\ last'.timestamp.kind # "float")
        => /\ buffer' = buffer
           /\ oldest_doc_timestamp' = oldest_doc_timestamp
           /\ IF Len(buffer) > 0
              THEN last'.exc.type = "TypeError"
              ELSE last'.exc.type = "none" ]_vars

C24_Witness ==
    /\ last.op = "_get_oldest_elapsed_time_from"
    /\ last.timestamp.kind = "NoneType"
    /\ last.exc.type = "TypeError"
    /\ Len(buffer) > 0

(* ------------------------------- C25 ---------------------------------- *)
\* C25: an ElasticBufferFlushError with verbose False prints as its message
\* alone, and as the same text with any other root cause in place of its own
\* (none, a str, a list, an exception).  The error flush raises carries the
\* verbose_errs of its buffer, so that with verbose_errs False its text is the
\* same whatever exception the transport raised or whatever list of errors it
\* returned.
AnyCause == Causes \cup Faults \cup { ListCause(l) : l \in BulkErrs }

C25_TruncatedErrorHidesCause ==
    /\ (raised # None /\ ~raised[1].verbose) =>
          /\ rendered = raised[1].msg
          /\ \A c \in AnyCause : __str__([ raised[1] EXCEPT !.err = c ]) = rendered
    /\ last.exc.type = FlushErrorType =>
          /\ raised # None
          /\ raised[1].verbose = verbose_errs
          /\ ~verbose_errs =>
                \A fault \in Faults, bulk_errs \in BulkErrs :
                    __str__(flush_raise(last.exc, fault, bulk_errs, verbose_errs)) = rendered

\* flush raised for a list of errors that quotes a document, and the error
\* printed as its message only
C25_Witness ==
    /\ ~verbose_errs
    /\ last.op = "flush"
    /\ last.exc.type = FlushErrorType
    /\ raised # None
    /\ raised[1].err = ListCause(<< "rejected {a: 2, _id: 7}", "err2" >>)
    /\ rendered = "Multiple bulk insertion errors"

(* ------------------------------- C26 ---------------------------------- *)
\* C26: an ElasticBufferFlushError with verbose True prints as its message
\* when it has no root cause (the empty string when it was given no message
\* either); as "<message>: <cause>" for a str, and for a list with the list
\* as Python prints it; and as "<message>: <class>: <text>" for an exception,
\* the class preceded by its module and a dot for ElasticsearchException and
\* bare for ValueError.
C26_VerboseErrorPrintsCause ==
    /\ __str__(ElasticBufferFlushError(None, NoCause, TRUE)) = ""
    /\ (raised # None /\ raised[1].verbose) =>
          LET e == raised[1] IN
          /\ e.err.kind = "None" => rendered = e.msg
          /\ e.err.kind = "str" => rendered = e.msg \o ": " \o e.err.text
          /\ e.err = ListCause(<< >>) => rendered = e.msg \o ": []"
          /\ e.err = ListCause(<< "err1" >>) => rendered = e.msg \o ": ['err1']"
          /\ e.err = ListCause(<< "error1", "error2", "error3" >>) =>
                rendered = e.msg \o ": ['error1', 'error2', 'error3']"
          /\ e.err = ListCause(<< "rejected {a: 2, _id: 7}", "err2" >>) =>
                rendered = e.msg \o ": ['rejected {a: 2, _id: 7}', 'err2']"
          /\ (e.err.kind = "exception" /\ e.err.name = "ValueError") =>
                rendered = e.msg \o ": ValueError: " \o e.err.text
          /\ (e.err.kind = "exception" /\ e.err.name = "ElasticsearchException") =>
                rendered = e.msg \o ": elasticsearch.exceptions.ElasticsearchException: "
                           \o e.err.text

\* the last case of test_str
C26_Witness ==
    /\ raised # None
    /\ raised[1].verbose
    /\ raised[1].err.kind = "exception"
    /\ rendered = "error message: elasticsearch.exceptions.ElasticsearchException: we have a big problem"

(* ------------------------------- C27 ---------------------------------- *)
\* C27: the keyword arguments of every call of bulk are those computed by the
\* constructor: chunk_size is the size of the buffer and max_retries is 3,
\* except that an option the caller passed in bulk_kwargs, these two included,
\* has the caller's value; and no call of add, flush or __exit__ changes them
\* or the size.
PassedBulkKwargs == IF given_bulk_kwargs = None THEN EmptyDict ELSE given_bulk_kwargs[1]

C27_BulkOptionsFixedAtConstruction ==
    [][ /\ size' = size
        /\ bulk_kwargs' = bulk_kwargs
        /\ \A i \in 1..Len(last'.bulk) : last'.bulk[i].kwargs = bulk_kwargs'
        /\ DOMAIN bulk_kwargs' = { "chunk_size", "max_retries" } \cup DOMAIN PassedBulkKwargs
        /\ bulk_kwargs'.chunk_size = IF "chunk_size" \in DOMAIN PassedBulkKwargs
                                     THEN PassedBulkKwargs.chunk_size ELSE size
        /\ bulk_kwargs'.max_retries = IF "max_retries" \in DOMAIN PassedBulkKwargs
                                      THEN PassedBulkKwargs.max_retries ELSE 3
        /\ \A k \in DOMAIN PassedBulkKwargs : bulk_kwargs'[k] = PassedBulkKwargs[k]
      ]_vars

\* bulk called with the caller's chunk_size, the default max_retries and the
\* caller's request_timeout
C27_Witness ==
    /\ Len(last.bulk) = 1
    /\ given_bulk_kwargs # None
    /\ "request_timeout" \in DOMAIN given_bulk_kwargs[1]
    /\ last.bulk[1].kwargs.chunk_size = 9
    /\ last.bulk[1].kwargs.chunk_size # size
    /\ last.bulk[1].kwargs.max_retries = 3
    /\ last.bulk[1].kwargs.request_timeout = 30

(* ------------------------------- C28 ---------------------------------- *)
\* C28: when a with-block is entered, its body calls add any number of times
\* with every flush those calls invoke succeeding, and the body ends without
\* an exception, flush has been invoked, from __enter__ to the return of
\* __exit__, once for each add whose append brought the buffer above its size
\* and once more by __exit__.
CleanExit == scope = "in" /\ scope' = "exited"

C28_FlushesAreOverflowsPlusOne ==
    [][ CleanExit =>
          /\ last'.op = "exit"
          /\ ~last'.err_raised
          /\ last'.flush_calls = 1
          /\ scope_flushes' = scope_overflows' + 1
      ]_vars

\* one add brought the buffer above its size: two calls of flush
C28_Witness ==
    /\ scope = "exited"
    /\ last.op = "exit"
    /\ ~last.err_raised
    /\ scope_overflows = 1
    /\ scope_flushes = 2

(* ------------------------------- C29 ---------------------------------- *)
\* C29: when the flush invoked by an add in the body of a with-block raises
\* ElasticBufferFlushError and the error leaves the block, __exit__ invokes
\* neither flush nor bulk: the last call of flush is the one add made, and
\* the buffer after __exit__ holds what it held when add raised.
FlushErrorLeavesScope ==
    /\ scope = "raising"
    /\ propagating = FlushErrorType
    /\ scope' = "exited"

C29_ExitAfterFlushErrorDoesNotFlush ==
    [][ FlushErrorLeavesScope =>
          /\ last.op = "add"
          /\ last.flush_calls = 1
          /\ last'.op = "exit"
          /\ last'.flush_calls = 0
          /\ Len(last'.bulk) = 0
          /\ scope_flushes' = scope_flushes
          /\ scope_flushes' = scope_overflows'
          /\ buffer' = buffer
          /\ oldest_doc_timestamp' = oldest_doc_timestamp
          /\ Len(buffer') > size
      ]_vars

\* the only call of flush in the block was the one add made, and it failed
C29_Witness ==
    /\ scope = "exited"
    /\ last.op = "exit"
    /\ last.err_raised
    /\ propagating = FlushErrorType
    /\ scope_flushes = 1
    /\ Len(buffer) > size

(* ------------------------------- C30 ---------------------------------- *)
\* C30: an add that appends documents, brings the buffer above its size and
\* returns normally has made one call of bulk, passed every document of the
\* buffer, those beyond its size included, and leaves the buffer empty and
\* the oldest timestamp unset; the next add that leaves documents in the
\* buffer sets the oldest timestamp to its own timestamp.
OverflowingAddSucceeded ==
    /\ last'.op = "add"
    /\ Len(last'.docs) > 0
    /\ Len(buffer) + Len(last'.docs) > size
    /\ last'.exc.type = "none"

AfterOverflowingAdd ==
    /\ last.op = "add"
    /\ Len(last.bulk) = 1
    /\ last.exc.type = "none"

C30_OverflowIsFlushedWhole ==
    [][ /\ OverflowingAddSucceeded =>
             /\ last'.flush_calls = 1
             /\ Len(last'.bulk) = 1
             /\ last'.bulk[1].docs = buffer \o last'.docs
             /\ Len(last'.bulk[1].docs) > size
             /\ Len(buffer') = 0
             /\ oldest_doc_timestamp' = None
        /\ (AfterOverflowingAdd /\ last'.op = "add" /\ Len(buffer') > 0) =>
             /\ Len(buffer) = 0
             /\ buffer' = last'.docs
             /\ oldest_doc_timestamp' = last'.timestamp
      ]_vars

\* three documents passed to bulk by an add to a buffer of size 1, none kept
C30_Witness ==
    /\ last.op = "add"
    /\ last.exc.type = "none"
    /\ size = 1
    /\ Len(last.bulk) = 1
    /\ Len(last.bulk[1].docs) = 3
    /\ Len(buffer) = 0
    /\ oldest_doc_timestamp = None

(* ------------------------------- C31 ---------------------------------- *)
\* C31: every state is Empty (no documents, no oldest timestamp) or
\* Accumulating (documents, and an oldest timestamp), and in every state,
\* whatever call came last and whatever it raised, __enter__, add, flush and
\* __exit__ (with and without an exception) can be called: the instance has no
\* closed or failed state.  What a call does is a function of the buffer, the
\* timestamp and the constructor's arguments only.
Empty == Len(buffer) = 0 /\ oldest_doc_timestamp = None
Accumulating == Len(buffer) > 0 /\ oldest_doc_timestamp # None

C31_NoTerminalState ==
    /\ Empty \/ Accumulating
    /\ ENABLED Enter
    /\ ENABLED Flush
    /\ ENABLED Exit(FALSE, 1, TRUE)
    /\ ENABLED Exit(TRUE, 1, TRUE)
    /\ ENABLED Add(ListBundle(<< >>), None, 1)
    /\ Len(buffer) < MaxBuf => ENABLED AddNow

\* after __exit__ raised the error of its flush, the buffer above its size
C31_Witness ==
    /\ Accumulating
    /\ last.op = "exit"
    /\ ~last.err_raised
    /\ last.exc.type = FlushErrorType
    /\ Len(buffer) > size

(* ------------------------------- C32 ---------------------------------- *)
\* C32: an add that appends documents and brings the buffer above its size,
\* when the transport then raises, returns errors or returns a count other
\* than the length of the buffer, raises ElasticBufferFlushError and leaves
\* the buffer as it was followed by every document of the add, and the oldest
\* timestamp as it was, or the timestamp of the add if the buffer was empty.
OverflowingAddFailed ==
    /\ last'.op = "add"
    /\ Len(last'.docs) > 0
    /\ Len(buffer) + Len(last'.docs) > size
    /\ ~FullSuccess(Answer, Len(buffer) + Len(last'.docs))

C32_FailedAddKeepsItsDocuments ==
    [][ OverflowingAddFailed =>
          /\ last'.exc.type = FlushErrorType
          /\ buffer' = buffer \o last'.docs
          /\ oldest_doc_timestamp' =
                IF Len(buffer) = 0 THEN last'.timestamp ELSE oldest_doc_timestamp
      ]_vars

\* the add raised, its documents behind those of an earlier add with another
\* timestamp
C32_Witness ==
    /\ last.op = "add"
    /\ last.exc.type = FlushErrorType
    /\ Len(last.docs) > 0
    /\ Len(buffer) > Len(last.docs)
    /\ Len(buffer) > size
    /\ SubSeq(buffer, Len(buffer) - Len(last.docs) + 1, Len(buffer)) = last.docs
    /\ last.timestamp # oldest_doc_timestamp

(* ------------------------------- C33 ---------------------------------- *)
\* C33 (FreshSpec): with the buffer above its size, which only a failed flush
\* leaves, every add that appends documents invokes flush once more, and bulk
\* is passed the whole buffer, the old documents and the new; while the
\* attempts fail the buffer grows by the documents of each add, none dropped
\* and none refused.
AboveSize == Len(buffer) > size

C33_AboveSizeEveryAddFlushesAll ==
    [][ (AboveSize /\ last'.op = "add" /\ Len(last'.docs) > 0) =>
          /\ last'.flush_calls = 1
          /\ Len(last'.bulk) = 1
          /\ last'.bulk[1].docs = buffer \o last'.docs
          /\ last'.exc.type \in { "none", FlushErrorType }
          /\ last'.exc.type = FlushErrorType =>
                /\ buffer' = buffer \o last'.docs
                /\ Len(buffer') > Len(buffer)
          /\ last'.exc.type = "none" => Len(buffer') = 0
      ]_vars

\* a second failed attempt: the buffer was above its size before this add,
\* and is longer after it
C33_Witness ==
    /\ last.op = "add"
    /\ last.exc.type = FlushErrorType
    /\ Len(last.docs) > 0
    /\ Len(buffer) - Len(last.docs) > size
    /\ last.bulk[1].docs = buffer
    /\ n_bulk >= 2

(* ------------------------------- C34 ---------------------------------- *)
\* C34 (RetrySpec): a flush that raises for a count other than the length of
\* the buffer, or for the errors bulk returned, keeps every document, those
\* Elasticsearch indexed included; the next call of bulk is passed all of
\* them again, and when it succeeds each has been indexed once more: a
\* document is indexed twice.
C34_IndexedDocumentsAreSentAgain ==
    [][ TransportCalled =>
          /\ (last'.exc.type = FlushErrorType /\ last'.exc.err # "exception") =>
                /\ buffer' = last'.bulk[1].docs
                /\ Len(indexed') = Len(buffer')
          /\ Len(buffer) > 0 =>
                /\ SubSeq(last'.bulk[1].docs, 1, Len(buffer)) = buffer
                /\ FullSuccess(Answer, Len(last'.bulk[1].docs)) =>
                      \A i \in 1..Len(indexed) :
                          indexed'[i] = Min(indexed[i] + 1, MaxIndexed)
      ]_vars

\* flush succeeded with documents Elasticsearch had indexed before
C34_Witness ==
    /\ last.op = "flush"
    /\ last.exc.type = "none"
    /\ Len(last.bulk) = 1
    /\ Len(buffer) = 0
    /\ Len(indexed) = Len(last.bulk[1].docs)
    /\ \E i \in 1..Len(indexed) : indexed[i] >= 2

(* ------------------------------- C37 ---------------------------------- *)
\* C37 (RetryLiveSpec): once the caller adds no more and keeps calling flush,
\* a flush that raises leaves the buffer and the oldest timestamp as they
\* were, so that the buffer is the one the caller stopped with until a flush
\* succeeds; and if bulk eventually succeeds, the buffer is eventually empty,
\* the last call of bulk having been passed exactly those documents.
Drained ==
    /\ retrying # None
    /\ Len(buffer) = 0
    /\ oldest_doc_timestamp = None
    /\ last.op = "flush"
    /\ last.exc.type = "none"
    /\ Len(last.bulk) = 1
    /\ last.bulk[1].docs = retrying[1]

C37_RetriesDrainTheBuffer ==
    /\ [][ (retrying # None /\ last'.op = "flush" /\ last'.exc.type # "none") =>
             /\ buffer' = buffer
             /\ oldest_doc_timestamp' = oldest_doc_timestamp ]_vars
    /\ [] ( (retrying # None /\ Len(buffer) > 0) => buffer = retrying[1] )
    /\ (retrying # None /\ Len(buffer) > 0) ~> Drained

\* drained after an attempt that failed: a document was indexed twice
C37_Witness ==
    /\ retrying # None
    /\ Len(retrying[1]) > 0
    /\ Drained
    /\ \E i \in 1..Len(indexed) : indexed[i] >= 2

(* ------------------------------- C35 ---------------------------------- *)
\* C35 (ErrSpec): when bulk returns, the list of errors is looked at first: if
\* it is not empty, also with a count below the length of the buffer, the
\* error raised is "Multiple bulk insertion errors" with the list as err.
\* "Failed to insert <k> of <n> documents" is raised only with an empty list;
\* it has no err, n is the length of the buffer and k is n less the count.
BulkReturned == TransportCalled /\ ~Answer.raises

C35_ErrorsBeforeCount ==
    [][ BulkReturned =>
          LET n == Len(last'.bulk[1].docs) IN
          /\ Len(Answer.bulk_errs) # 0 =>
                /\ last'.exc.type = FlushErrorType
                /\ raised' # None
                /\ raised'[1].msg = "Multiple bulk insertion errors"
                /\ raised'[1].err.kind = "list"
                /\ \A fault \in Faults :
                      flush_raise(last'.exc, fault, Answer.bulk_errs, verbose_errs).err
                         = ListCause(Answer.bulk_errs)
          /\ (Len(Answer.bulk_errs) = 0 /\ Answer.n_success # n) =>
                /\ last'.exc.type = FlushErrorType
                /\ raised' # None
                /\ raised'[1].err = NoCause
                /\ raised'[1].msg = "Failed to insert " \o ToString(n - Answer.n_success)
                                    \o " of " \o ToString(n) \o " documents"
          /\ (last'.exc.type = FlushErrorType /\ last'.exc.err = "None") =>
                Len(Answer.bulk_errs) = 0
      ]_vars

\* errors returned with a count one short: the error raised is the one for
\* the errors
C35_Witness ==
    /\ Len(last.bulk) = 1
    /\ ~last.bulk[1].res.raises
    /\ Len(last.bulk[1].res.bulk_errs) > 0
    /\ last.bulk[1].res.n_success < Len(last.bulk[1].docs)
    /\ raised # None
    /\ raised[1].msg = "Multiple bulk insertion errors"
    /\ raised[1].err.kind = "list"

(* ------------------------------- C36 ---------------------------------- *)
\* C36 (ScopeSpec): when __exit__ is called with an exception raised in the
\* with-block, it raises nothing itself, also when the dump file cannot be
\* written: the exception that leaves the block is the one raised in it, and
\* the buffer and the oldest timestamp are as they were.
ExceptionLeavesScope == scope = "raising" /\ scope' = "exited"

C36_DumpFailureIsNotRaised ==
    [][ ExceptionLeavesScope =>
          /\ last'.op = "exit"
          /\ last'.err_raised
          /\ last'.exc.type = "none"
          /\ propagating' = propagating
          /\ buffer' = buffer
          /\ oldest_doc_timestamp' = oldest_doc_timestamp
      ]_vars

====
